---- MODULE Spec2Model ----
(***************************************************************************)
(* cloudflare-dyndns: src/main.rs.                                         *)
(*                                                                         *)
(* One run of `main` looks up the zone, fetches the current DNS record,    *)
(* determines the external IPv4 address from the IP services (first match  *)
(* wins, or a vote over all services with --verify) and updates the record *)
(* when it differs.                                                        *)
(*                                                                         *)
(* A dotted-quad text matched by IPV4_MATCHER is a tuple of four numbers   *)
(* in 0..999 (each the value of a run of one to three digits); an Ipv4Addr *)
(* is such a tuple with every number at most 255.  Leading zeros are not   *)
(* represented.  `--verbose` only adds lines to stderr and is taken as     *)
(* off; stderr holds the lines written whatever its value.  Building the   *)
(* two HTTP clients (main.rs:137-142, 279-284) sends nothing and is taken  *)
(* to succeed.                                                             *)
(***************************************************************************)
EXTENDS Naturals, Sequences, FiniteSets, TLC

VARIABLES
    options,         \* Options: ip_timeout, dry_run, verify, zone_id, zone_name, dns_record
    net,             \* what each IP service answers when asked (index in IP_SERVICE_URLS)
    dns,             \* the provider's DNS records, in the order it lists them
    zones,           \* the provider's zones, in the order it lists them
    pc,              \* position in main
    run,             \* number of the current run of the program
    zone_id,         \* main: zone_id
    current_record,  \* main: current_record
    external_ip,     \* main: the Result of determine_external_ip
    i,               \* number of IP services asked so far in this pass
    votes,           \* determine_external_ip_with_verification: votes (HashMap)
    requests,        \* requests sent in this run, in order
    stderr,          \* lines written to stderr in this run, in order
    outcome,         \* how the run ended
    prev,            \* the Result of determine_external_ip in the previous run
    prev_outcome     \* how the previous run ended

vars == <<options, net, dns, zones, pc, run, zone_id, current_record,
          external_ip, i, votes, requests, stderr, outcome, prev, prev_outcome>>

(***************************************************************************)
(* Program constants and bounds.                                           *)
(***************************************************************************)
NumSources == 7

DefaultTimeout == 5

MaxRuns == 2

Sources == 1..NumSources

(***************************************************************************)
(* Values.                                                                 *)
(***************************************************************************)
None == [some |-> FALSE]

Some(x) == [some |-> TRUE, val |-> x]

Ok(x) == [ok |-> TRUE, val |-> x]

Err(e) == [ok |-> FALSE, err |-> e]

IpA == <<203, 0, 113, 7>>

IpB == <<198, 51, 100, 9>>

NotAnIp == <<999, 1, 1, 1>>

\* The answer of one GET: a transport error or timeout, or a body.  A body is
\* the sequence of the dotted-quad texts in it, in the order they occur.
TransportError == [kind |-> "err"]

Body(matches) == [kind |-> "ok", body |-> matches]

Bodies == { <<>>, <<IpA>>, <<IpB>>, <<NotAnIp, IpA>> }

Responses == {TransportError} \cup { Body(b) : b \in Bodies }

(***************************************************************************)
(* Pure functions.                                                         *)
(***************************************************************************)
parse_ip_lenient(string) == Ok(string)

parse_ip(string) ==
    IF \A k \in 1..4 : string[k] <= 255
    THEN Ok(string)
    ELSE Err("ParseError")

extract_ip_from_body(body) ==
    IF body = <<>> THEN None ELSE Some(Head(body))

\* client.get(url).send().and_then(text).map(extract_ip_from_body):
\* Err, Ok(None) or Ok(Some(ip)).
found_ip(response) ==
    IF response.kind = "err"
    THEN Err("Transport")
    ELSE Ok(extract_ip_from_body(response.body))

IsMatch(found) == found.ok /\ found.val.some

AddVoteOverwrite(v, ip) ==
    [k \in (DOMAIN v) \cup {ip} |-> IF k = ip THEN 1 ELSE v[k]]

\* *votes.entry(ip).or_insert(0) += 1
AddVote(v, ip) ==
    IF ip \in DOMAIN v
    THEN [v EXCEPT ![ip] = @ + 1]
    ELSE [k \in (DOMAIN v) \cup {ip} |-> IF k = ip THEN 1 ELSE v[k]]

NoVotes == [k \in {} |-> 0]

RECURSIVE SumOver(_, _)
SumOver(v, keys) ==
    IF keys = {} THEN 0
    ELSE LET k == CHOOSE x \in keys : TRUE
         IN  v[k] + SumOver(v, keys \ {k})

\* votes.values().copied().sum()
total_votes(v) == SumOver(v, DOMAIN v)

\* votes.iter().max_by_key(tally): an entry with the highest tally.  The
\* HashMap iterates in the order of its per-instance random hash keys and
\* max_by_key keeps the last maximum, so with several entries at the highest
\* tally any of them can be the one returned.
TopVotes(v) == { k \in DOMAIN v : \A o \in DOMAIN v : v[o] <= v[k] }

\* *top_vote.1 >= (total_votes * 2 / 3), in u16 (at most NumSources votes)
HasMajority(tally, total) == tally >= (total * 2) \div 3

(***************************************************************************)
(* Requests, records, run results.                                         *)
(***************************************************************************)
IpRequest(s) == [to |-> "ip_service", op |-> "GET", src |-> s]

CfRequest(op, params) == [to |-> "cloudflare", op |-> op, params |-> params]

\* DnsContent
ContentA(ip) == [type |-> "A", ip |-> ip]

ContentOther == [type |-> "AAAA", ip |-> <<0, 0, 0, 0>>]

DnsRecord(id, name, content, ttl, proxied) ==
    [id |-> id, name |-> name, content |-> content, ttl |-> ttl, proxied |-> proxied]

Zone(id, name) == [id |-> id, name |-> name]

Pending == Err("Pending")

Running == [state |-> "Running", err |-> ""]

Ended(state) == [state |-> state, err |-> ""]

FailedAsNoOp(e) == [state |-> "NoOp", err |-> e]

Failed(e) == [state |-> "Failed", err |-> e]

RECURSIVE FindLastByName(_, _)
FindLastByName(list, name) ==
    IF list = <<>> THEN None
    ELSE IF list[Len(list)].name = name THEN Some(list[Len(list)])
    ELSE FindLastByName(SubSeq(list, 1, Len(list) - 1), name)

\* .into_iter().find(|x| x.name == name)
RECURSIVE FindByName(_, _)
FindByName(list, name) ==
    IF list = <<>> THEN None
    ELSE IF Head(list).name = name THEN Some(Head(list))
    ELSE FindByName(Tail(list), name)

(***************************************************************************)
(* Inputs.                                                                 *)
(***************************************************************************)
HostName == "home.example.com"

ZoneName == "example.com"

HostA(ip) == DnsRecord("rec-a", HostName, ContentA(ip), 300, TRUE)

HostPlain(ip) == DnsRecord("rec-a", HostName, ContentA(ip), 1, FALSE)

HostOther == DnsRecord("rec-6", HostName, ContentOther, 300, FALSE)

Sibling == DnsRecord("rec-w", "www.example.com", ContentA(IpB), 1, FALSE)

RecordLists ==
    { <<>>,
      <<HostA(IpA)>>,
      <<HostPlain(IpB)>>,
      <<Sibling, HostA(IpB)>>,
      <<HostOther, HostPlain(IpA)>> }

ZoneLists ==
    { <<>>,
      <<Zone("zone-0", "example.org"), Zone("zone-1", ZoneName)>> }

\* --zone-id given, or only --zone-name (the group requires one of them)
ZoneOptions ==
    { [id |-> Some("zone-1"), name |-> None],
      [id |-> None, name |-> Some(ZoneName)] }

OptionsSet ==
    [ ip_timeout : {0, DefaultTimeout},
      dry_run    : BOOLEAN,
      verify     : BOOLEAN,
      zone       : ZoneOptions,
      dns_record : {HostName} ]

ra == Body(<<IpA>>)

rb == Body(<<IpB>>)

rx == Body(<<NotAnIp, IpA>>)

re == TransportError

rn == Body(<<>>)

\* The networks of the whole-run specification: all services agree, all
\* fail, a majority, a tie, a three-way split, a first match that is no
\* address.
RunNets ==
    { <<ra, ra, ra, ra, ra, ra, ra>>,
      <<rb, rb, rb, rb, rb, rb, rb>>,
      <<re, rn, re, rn, re, rn, re>>,
      <<re, rn, rb, ra, ra, ra, re>>,
      <<ra, rb, re, rb, ra, rn, re>>,
      <<rn, ra, rb, rx, re, re, rn>>,
      <<rx, ra, ra, re, ra, ra, ra>>,
      <<rx, rx, rb, rn, re, rn, re>> }

AllNets == [Sources -> Responses]

(***************************************************************************)
(* Initial states.                                                         *)
(***************************************************************************)
\* Process-local state at the start of main.
FreshRun ==
    /\ pc = "start"
    /\ zone_id = None
    /\ current_record = None
    /\ external_ip = Pending
    /\ i = 0
    /\ votes = NoVotes
    /\ requests = <<>>
    /\ stderr = <<>>
    /\ outcome = Running

Init ==
    /\ options \in OptionsSet
    /\ net \in RunNets
    /\ dns \in RecordLists
    /\ zones \in ZoneLists
    /\ options.zone.id.some => zones # <<>>
    /\ run = 1
    /\ prev = Pending
    /\ prev_outcome = Running
    /\ FreshRun

\* The entry of determine_external_ip (main.rs:147): the timeout is positive,
\* the zone is known and the record is fetched.
InitPass ==
    /\ options \in { o \in OptionsSet :
                        /\ o.ip_timeout > 0
                        /\ ~o.dry_run
                        /\ o.zone.id.some }
    /\ net \in AllNets
    /\ dns = <<HostA(IpA)>>
    /\ zones = <<Zone("zone-1", ZoneName)>>
    /\ run = 1
    /\ prev = Pending
    /\ prev_outcome = Running
    /\ pc = "resolve"
    /\ zone_id = Some("zone-1")
    /\ current_record = Some(HostA(IpA))
    /\ external_ip = Pending
    /\ i = 0
    /\ votes = NoVotes
    /\ requests = <<>>
    /\ stderr = <<>>
    /\ outcome = Running

(***************************************************************************)
(* determine_external_ip_without_verification                              *)
(***************************************************************************)
SourcesLeftButLast(n) == n < NumSources - 1

\* for url in IP_SERVICE_URLS.iter(): a service is left to ask
SourcesLeft(n) == n < NumSources

\* One turn of the loop over IP_SERVICE_URLS (main.rs:310-337).
QueryFirstSuccess ==
    /\ pc = "resolve"
    /\ ~options.verify
    /\ SourcesLeft(i)
    /\ LET found == found_ip(net[i + 1])
       IN  /\ i' = i + 1
           /\ requests' = Append(requests, IpRequest(i + 1))
           /\ IF IsMatch(found)
              THEN /\ stderr' = Append(stderr, [msg |-> "Found", ip |-> found.val.val])
                   /\ external_ip' = parse_ip(found.val.val)
                   /\ pc' = "resolved"
              ELSE UNCHANGED <<stderr, external_ip, pc>>
    /\ UNCHANGED <<options, net, dns, zones, run, zone_id, current_record,
                   votes, outcome, prev, prev_outcome>>

\* The loop ran out of services (main.rs:339-342).
NoneReplied ==
    /\ pc = "resolve"
    /\ ~options.verify
    /\ ~SourcesLeft(i)
    /\ external_ip' = Err("NoneReplied")
    /\ pc' = "resolved"
    /\ UNCHANGED <<options, net, dns, zones, run, zone_id, current_record,
                   i, votes, requests, stderr, outcome, prev, prev_outcome>>

(***************************************************************************)
(* determine_external_ip_with_verification                                 *)
(***************************************************************************)
\* One turn of the loop over IP_SERVICE_URLS (main.rs:363-385).
QueryAndVote ==
    /\ pc = "resolve"
    /\ options.verify
    /\ SourcesLeft(i)
    /\ LET found == found_ip(net[i + 1])
       IN  /\ i' = i + 1
           /\ requests' = Append(requests, IpRequest(i + 1))
           /\ votes' = IF IsMatch(found) THEN AddVote(votes, found.val.val) ELSE votes
    /\ UNCHANGED <<options, net, dns, zones, pc, run, zone_id, current_record,
                   external_ip, stderr, outcome, prev, prev_outcome>>

TallyLinesTopOnly(v) == { <<ip, v[ip]>> : ip \in TopVotes(v) }

TallyLines(v) == { <<ip, v[ip]>> : ip \in DOMAIN v }

\* The decision over the votes (main.rs:387-420).
Decide ==
    /\ pc = "resolve"
    /\ options.verify
    /\ ~SourcesLeft(i)
    /\ pc' = "resolved"
    /\ IF Cardinality(DOMAIN votes) = 0
       THEN /\ external_ip' = Err("AllSourcesFailed")
            /\ UNCHANGED stderr
       ELSE IF Cardinality(DOMAIN votes) = 1
       THEN LET ip == CHOOSE k \in DOMAIN votes : TRUE
            IN  /\ stderr' = Append(stderr, [msg |-> "Done", ip |-> ip])
                /\ external_ip' = parse_ip(ip)
       ELSE \E top_vote \in TopVotes(votes) :
                IF HasMajority(votes[top_vote], total_votes(votes))
                THEN /\ stderr' = stderr \o
                        << [msg |-> "Warning: Some services disagree on IP!"],
                           [msg |-> "Majority", ip |-> top_vote,
                            tally |-> votes[top_vote],
                            total |-> Cardinality(DOMAIN votes)] >>
                     /\ external_ip' = parse_ip(top_vote)
                ELSE /\ stderr' = stderr \o
                        << [msg |-> "Warning: Some services disagree on IP!"],
                           [msg |-> "No IP has absolute majority",
                            lines |-> TallyLines(votes)],
                           [msg |-> "Aborting."] >>
                     /\ external_ip' = Err("NoQuorum")
    /\ UNCHANGED <<options, net, dns, zones, run, zone_id, current_record,
                   i, votes, requests, outcome, prev, prev_outcome>>

PassNext ==
    \/ QueryFirstSuccess
    \/ NoneReplied
    \/ QueryAndVote
    \/ Decide

SpecPass == InitPass /\ [][PassNext]_vars

(***************************************************************************)
(* main                                                                    *)
(***************************************************************************)
Exit(result) ==
    /\ outcome' = result
    /\ pc' = "exit"

NeverRejected(timeout) == FALSE

\* options.ip_timeout == 0
TimeoutRejected(timeout) == timeout = 0

CheckTimeoutThenResolve ==
    /\ pc = "start"
    /\ IF TimeoutRejected(options.ip_timeout)
       THEN Exit(Failed("ZeroTimeout"))
       ELSE /\ pc' = "resolve"
            /\ UNCHANGED outcome
    /\ UNCHANGED <<options, net, dns, zones, run, zone_id, current_record,
                   external_ip, i, votes, requests, stderr, prev, prev_outcome>>

\* main.rs:131-135
CheckTimeout ==
    /\ pc = "start"
    /\ IF TimeoutRejected(options.ip_timeout)
       THEN Exit(Failed("ZeroTimeout"))
       ELSE /\ pc' = "find_zone"
            /\ UNCHANGED outcome
    /\ UNCHANGED <<options, net, dns, zones, run, zone_id, current_record,
                   external_ip, i, votes, requests, stderr, prev, prev_outcome>>

ListZones(name) == CfRequest("ListZones", [name |-> name])

\* find_zone_id (main.rs:173-219).  The provider answers the request with
\* an error or with its zones; on an error dbg!(&err) writes the error to
\* stderr whatever --verbose (main.rs:196).
FindZoneId ==
    /\ pc = "find_zone"
    /\ IF options.zone.id.some
       THEN /\ zone_id' = options.zone.id
            /\ pc' = "fetch_record"
            /\ UNCHANGED <<requests, stderr, outcome>>
       ELSE /\ requests' = Append(requests, ListZones(options.zone.name.val))
            /\ \/ /\ stderr' = Append(stderr, [msg |-> "dbg", expr |-> "&err"])
                  /\ Exit(Failed("ListZones"))
                  /\ UNCHANGED zone_id
               \/ LET zone == FindByName(zones, options.zone.name.val)
                  IN  IF zone.some
                      THEN /\ zone_id' = Some(zone.val.id)
                           /\ pc' = "fetch_record"
                           /\ UNCHANGED <<stderr, outcome>>
                      ELSE /\ Exit(Failed("ZoneNotFound"))
                           /\ UNCHANGED <<stderr, zone_id>>
    /\ UNCHANGED <<options, net, dns, zones, run, current_record,
                   external_ip, i, votes, prev, prev_outcome>>

ListDnsRecords(zone, name) ==
    CfRequest("ListDnsRecords", [zone_identifier |-> zone, name |-> name])

\* fetch_current_dns_record (main.rs:221-249)
FetchCurrentDnsRecord ==
    /\ pc = "fetch_record"
    /\ requests' = Append(requests, ListDnsRecords(zone_id.val, options.dns_record))
    /\ \/ /\ Exit(Failed("ListDnsRecords"))
          /\ UNCHANGED current_record
       \/ LET record == FindByName(dns, options.dns_record)
          IN  IF record.some
              THEN /\ current_record' = record
                   /\ pc' = "resolve"
                   /\ UNCHANGED outcome
              ELSE /\ Exit(Failed("RecordNotFound"))
                   /\ UNCHANGED current_record
    /\ UNCHANGED <<options, net, dns, zones, run, zone_id,
                   external_ip, i, votes, stderr, prev, prev_outcome>>

AlwaysDiffers(content, ip) == FALSE

\* DnsContent::A { content: ip } if ip == external_ip
AlreadyCorrect(content, ip) == content.type = "A" /\ content.ip = ip

\* The `?` on determine_external_ip and the match on the record's content
\* (main.rs:147-170), up to the call of update_dns_record.
Reconcile ==
    /\ pc = "resolved"
    /\ IF ~external_ip.ok
       THEN /\ Exit(Failed(external_ip.err))
            /\ UNCHANGED stderr
       ELSE IF AlreadyCorrect(current_record.val.content, external_ip.val)
       THEN /\ stderr' = Append(stderr, [msg |-> "Existing record is already correct."])
            /\ Exit(Ended("NoOp"))
       ELSE IF options.dry_run
       THEN /\ stderr' = Append(stderr, [msg |-> "Would update", ip |-> external_ip.val])
            /\ Exit(Ended("WouldUpdate"))
       ELSE /\ pc' = "update"
            /\ UNCHANGED <<stderr, outcome>>
    /\ UNCHANGED <<options, net, dns, zones, run, zone_id, current_record,
                   external_ip, i, votes, requests, prev, prev_outcome>>

UpdateParamsStale(record, new_ip) ==
    [name |-> record.name, content |-> record.content,
     ttl |-> None, proxied |-> None]

\* dns::UpdateDnsRecordParams (main.rs:260-265)
UpdateParams(record, new_ip) ==
    [name |-> record.name, content |-> ContentA(new_ip),
     ttl |-> None, proxied |-> None]

UpdateDnsRecordRequest(zone, record, new_ip) ==
    CfRequest("UpdateDnsRecord",
              [zone_identifier |-> zone, identifier |-> record.id]
                  @@ UpdateParams(record, new_ip))

\* The provider's record after an accepted update.  A field the request
\* leaves out is kept or set to the provider's default (ttl 1, not proxied):
\* main.rs does not decide which.
Written(record, params, keep) ==
    [id      |-> record.id,
     name    |-> params.name,
     content |-> params.content,
     ttl     |-> IF params.ttl.some THEN params.ttl.val
                 ELSE IF keep THEN record.ttl ELSE 1,
     proxied |-> IF params.proxied.some THEN params.proxied.val
                 ELSE IF keep THEN record.proxied ELSE FALSE]

\* update_dns_record (main.rs:251-277)
UpdateDnsRecord ==
    /\ pc = "update"
    /\ LET request == UpdateDnsRecordRequest(zone_id.val, current_record.val,
                                             external_ip.val)
       IN  /\ requests' = Append(requests, request)
           /\ \/ /\ Exit(Failed("UpdateDnsRecord"))
                 /\ UNCHANGED dns
              \/ /\ \E keep \in BOOLEAN :
                        dns' = [k \in DOMAIN dns |->
                                   IF dns[k].id = request.params.identifier
                                   THEN Written(dns[k], request.params, keep)
                                   ELSE dns[k]]
                 /\ Exit(Ended("Updated"))
    /\ UNCHANGED <<options, net, zones, run, zone_id, current_record,
                   external_ip, i, votes, stderr, prev, prev_outcome>>

\* The program is started again (a scheduler runs it periodically): a new
\* process, the same options, the same answers from the IP services.
NextRun ==
    /\ pc = "exit"
    /\ run < MaxRuns
    /\ run' = run + 1
    /\ prev' = external_ip
    /\ prev_outcome' = outcome
    /\ pc' = "start"
    /\ zone_id' = None
    /\ current_record' = None
    /\ external_ip' = Pending
    /\ i' = 0
    /\ votes' = NoVotes
    /\ requests' = <<>>
    /\ stderr' = <<>>
    /\ outcome' = Running
    /\ UNCHANGED <<options, net, dns, zones>>

Next ==
    \/ CheckTimeout
    \/ FindZoneId
    \/ FetchCurrentDnsRecord
    \/ QueryFirstSuccess
    \/ NoneReplied
    \/ QueryAndVote
    \/ Decide
    \/ Reconcile
    \/ UpdateDnsRecord
    \/ NextRun

Spec == Init /\ [][Next]_vars

(***************************************************************************)
(* What the properties speak of.                                           *)
(***************************************************************************)
IsIpv4(text) == \A k \in 1..4 : text[k] \in 0..255

\* The answer of service s holds a dotted-quad match.
HasMatchAt(s) == net[s].kind = "ok" /\ net[s].body # <<>>

FirstMatchAt(s) == net[s].body[1]

\* The first match in the answer of service s is an IPv4 address.
ReturnsAddress(s) == HasMatchAt(s) /\ IsIpv4(FirstMatchAt(s))

\* The first match in the answer of service s is no IPv4 address.
ReturnsNoAddress(s) == HasMatchAt(s) /\ ~IsIpv4(FirstMatchAt(s))

\* Service s fails: a transport error or a body without a match.
FailsAt(s) == ~HasMatchAt(s)

PassReturned == external_ip # Pending

IsIpRequest(r) == r.to = "ip_service"

IsUpdateRequest(r) == r.to = "cloudflare" /\ r.op = "UpdateDnsRecord"

IpRequests == SelectSeq(requests, IsIpRequest)

UpdateRequests == SelectSeq(requests, IsUpdateRequest)

\* The services 1..n were asked once each, in list order, and no other.
AskedUpTo(n) == IpRequests = [k \in 1..n |-> IpRequest(k)]

\* Number of services whose first match is the text c.
ReportedBy(c) == Cardinality({ s \in Sources : HasMatchAt(s) /\ FirstMatchAt(s) = c })

Respondents == Cardinality({ s \in Sources : HasMatchAt(s) })

Disagree == Cardinality(DOMAIN votes) >= 2

HighestTally == votes[CHOOSE k \in TopVotes(votes) : TRUE]

(***************************************************************************)
(* C1 (as claimed): in first-success mode, whenever some service's answer  *)
(* has a valid IPv4 address as its first match, the pass returns the       *)
(* address of the first such service and asks no service after it.         *)
(* Fails: a service before it whose first match is no address ends the     *)
(* pass with a parse error.                                                *)
(***************************************************************************)
C1_FirstSuccessReturnsFirstAddress ==
    (~options.verify /\ PassReturned /\ \E s \in Sources : ReturnsAddress(s)) =>
        LET first == CHOOSE s \in Sources :
                        /\ ReturnsAddress(s)
                        /\ \A t \in 1..(s - 1) : ~ReturnsAddress(t)
        IN  /\ external_ip = Ok(FirstMatchAt(first))
            /\ AskedUpTo(first)

(***************************************************************************)
(* C2: if every service fails (transport error or body without a match),   *)
(* the pass ends, in either mode, with the all-sources-failed error, and   *)
(* by then every service has been asked.                                   *)
(***************************************************************************)
C2_AllSourcesFailed ==
    (PassReturned /\ \A s \in Sources : FailsAt(s)) =>
        /\ external_ip = Err(IF options.verify THEN "AllSourcesFailed" ELSE "NoneReplied")
        /\ AskedUpTo(NumSources)

C2_Witness ==
    /\ PassReturned
    /\ \A s \in Sources : FailsAt(s)
    /\ \E s \in Sources : net[s].kind = "err"
    /\ \E s \in Sources : net[s].kind = "ok"
    /\ options.verify
    /\ external_ip = Err("AllSourcesFailed")

(***************************************************************************)
(* C3 (as claimed): with two or more distinct candidates in the tally, the *)
(* pass returns a candidate with the highest tally exactly when that tally *)
(* is at least floor(total * 2 / 3), and fails with NoQuorum otherwise.    *)
(* Fails: the candidate with the highest tally can be a text that is no    *)
(* address (see C5), and the pass then ends with a parse error.            *)
(***************************************************************************)
C3_ThresholdDecides ==
    (options.verify /\ PassReturned /\ Disagree) =>
        IF HighestTally >= (total_votes(votes) * 2) \div 3
        THEN /\ external_ip.ok
             /\ external_ip.val \in TopVotes(votes)
        ELSE external_ip = Err("NoQuorum")

(***************************************************************************)
(* C4 (as claimed): when the services disagree and the pass returns an     *)
(* address, strictly more than two thirds of the services that produced a  *)
(* candidate reported it.  Stated for the passes in which every match is   *)
(* an address, so that its failure does not rest on C5.                    *)
(***************************************************************************)
C4_StrictTwoThirds ==
    (/\ options.verify /\ PassReturned /\ Disagree /\ external_ip.ok
     /\ \A s \in Sources : ~ReturnsNoAddress(s)) =>
        3 * ReportedBy(external_ip.val) > 2 * Respondents

(***************************************************************************)
(* C5 (as claimed): a service whose first match is no IPv4 address adds no *)
(* vote: its text is not in the tally and the total counts only the        *)
(* services that reported an address.                                      *)
(***************************************************************************)
C5_InvalidMatchHasNoVote ==
    (options.verify /\ PassReturned) =>
        /\ \A s \in Sources : ReturnsNoAddress(s) => FirstMatchAt(s) \notin DOMAIN votes
        /\ total_votes(votes) = Cardinality({ s \in Sources : ReturnsAddress(s) })

(***************************************************************************)
(* C6 (as claimed): in first-success mode the pass fails only when every   *)
(* service has been asked: no failure of one service ends it.              *)
(***************************************************************************)
C6_FailsOnlyWhenExhausted ==
    (~options.verify /\ PassReturned /\ ~external_ip.ok) =>
        AskedUpTo(NumSources)

(***************************************************************************)
(* C7: a run that resolved an IP ends in NoOp without an update request    *)
(* when the fetched record is an A record with that address; else in       *)
(* WouldUpdate without an update request under --dry-run; else it sends    *)
(* exactly one update request, with the fetched record's identifier and    *)
(* name and the resolved IP as its content.                                *)
(***************************************************************************)
C7_ReconcileAction ==
    (pc = "exit" /\ external_ip.ok) =>
        LET record == current_record.val
            same   == record.content.type = "A" /\ record.content.ip = external_ip.val
        IN  IF same
            THEN outcome = Ended("NoOp") /\ UpdateRequests = <<>>
            ELSE IF options.dry_run
            THEN outcome = Ended("WouldUpdate") /\ UpdateRequests = <<>>
            ELSE /\ Len(UpdateRequests) = 1
                 /\ UpdateRequests[1].params.identifier = record.id
                 /\ UpdateRequests[1].params.name = record.name
                 /\ UpdateRequests[1].params.content = ContentA(external_ip.val)
                 /\ outcome.state \in {"Updated", "Failed"}

C7_Witness ==
    /\ pc = "exit"
    /\ external_ip.ok
    /\ ~options.dry_run
    /\ current_record.val.content # ContentA(external_ip.val)
    /\ outcome = Ended("Updated")
    /\ Len(UpdateRequests) = 1

(***************************************************************************)
(* C8 (as claimed): an update carries the fetched record's TTL and proxy   *)
(* flag, and the record has them after the write.                          *)
(***************************************************************************)
C8_UpdateKeepsTtlAndProxied ==
    (pc = "exit" /\ outcome = Ended("Updated")) =>
        LET record == current_record.val
            params == UpdateRequests[1].params
            after  == CHOOSE r \in { dns[k] : k \in DOMAIN dns } : r.id = record.id
        IN  /\ params.ttl = Some(record.ttl)
            /\ params.proxied = Some(record.proxied)
            /\ after.ttl = record.ttl
            /\ after.proxied = record.proxied

(***************************************************************************)
(* C9 (as claimed): two passes in quorum mode that get the same answers    *)
(* from the same services in the same order select the same candidate.     *)
(* The answers and the options are the same in every run of a behaviour.   *)
(***************************************************************************)
C9_SameAnswersSameCandidate ==
    (run > 1 /\ options.verify /\ prev.ok /\ external_ip.ok) =>
        external_ip.val = prev.val

(***************************************************************************)
(* C10: with --ip-timeout 0 the run ends with the configuration error and  *)
(* sends no request, to the DNS provider or to an IP service.              *)
(***************************************************************************)
C10_ZeroTimeoutNoRequest ==
    options.ip_timeout = 0 =>
        /\ requests = <<>>
        /\ pc \in {"start", "exit"}
        /\ pc = "exit" => outcome = Failed("ZeroTimeout")

C10_Witness ==
    /\ options.ip_timeout = 0
    /\ pc = "exit"
    /\ outcome = Failed("ZeroTimeout")
    /\ requests = <<>>

(***************************************************************************)
(* C11: a pass, in either mode and whatever the services answer, goes on   *)
(* until it returns (it can always take a step, and asks each service at   *)
(* most once), and it returns one Result: a failure, or an address that is *)
(* a valid IPv4 address and the first match in the answer of a service     *)
(* asked in this pass.                                                     *)
(***************************************************************************)
C11_OneAddressOrFailure ==
    /\ pc = "resolve" =>
          /\ ~PassReturned
          /\ i <= NumSources
          /\ ENABLED PassNext
    /\ pc = "resolved" =>
          /\ PassReturned
          /\ AskedUpTo(i)
          /\ external_ip.ok =>
                /\ IsIpv4(external_ip.val)
                /\ \E s \in 1..i : HasMatchAt(s) /\ FirstMatchAt(s) = external_ip.val

C11_Witness ==
    /\ pc = "resolved"
    /\ options.verify
    /\ Disagree
    /\ external_ip.ok
    /\ \E s \in Sources : ReturnsNoAddress(s)
    /\ \E s \in Sources : FailsAt(s)

(***************************************************************************)
(* C12: without --dry-run, a run that follows a run that ended in NoOp or  *)
(* Updated, and that resolves the same address as that run did, ends in    *)
(* NoOp and sends no update request, whatever record the first run found.  *)
(* Nothing but the program's own update changes the provider's records     *)
(* between the runs.                                                       *)
(***************************************************************************)
C12_SecondRunNoOp ==
    (/\ run > 1
     /\ pc = "exit"
     /\ ~options.dry_run
     /\ prev_outcome.state \in {"NoOp", "Updated"}
     /\ external_ip.ok
     /\ external_ip = prev) =>
        /\ outcome = Ended("NoOp")
        /\ UpdateRequests = <<>>

C12_Witness ==
    /\ run = 2
    /\ pc = "exit"
    /\ ~options.dry_run
    /\ prev_outcome = Ended("Updated")
    /\ external_ip.ok
    /\ external_ip = prev
    /\ outcome = Ended("NoOp")

(***************************************************************************)
(* C13 (as claimed): in quorum mode, when exactly one distinct candidate   *)
(* was collected, that value is the result of the pass, however many       *)
(* services reported it.  Fails: the one candidate can be a text that is   *)
(* no address (see C5), and the pass then ends with a parse error.         *)
(***************************************************************************)
C13_SingleCandidateIsResult ==
    (options.verify /\ PassReturned /\ Cardinality(DOMAIN votes) = 1) =>
        \A c \in DOMAIN votes : external_ip = Ok(c)

(***************************************************************************)
(* C14: in quorum mode the services are asked once each in list order,     *)
(* whatever the others answered; the pass returns only after the last one; *)
(* each service asked adds exactly one vote when its answer has a match    *)
(* and none otherwise, so every tally is the number of services asked that *)
(* reported that text and the total is the number of services asked whose  *)
(* answer had a match.                                                     *)
(***************************************************************************)
C14_EveryServiceAskedOnce ==
    options.verify =>
        /\ AskedUpTo(i)
        /\ PassReturned => i = NumSources
        /\ DOMAIN votes = { FirstMatchAt(s) : s \in { t \in 1..i : HasMatchAt(t) } }
        /\ \A c \in DOMAIN votes :
              votes[c] = Cardinality({ s \in 1..i : HasMatchAt(s) /\ FirstMatchAt(s) = c })
        /\ total_votes(votes) = Cardinality({ s \in 1..i : HasMatchAt(s) })

C14_Witness ==
    /\ options.verify
    /\ PassReturned
    /\ i = NumSources
    /\ FailsAt(1)
    /\ HasMatchAt(2)
    /\ \E s \in Sources : s > 2 /\ FailsAt(s)
    /\ total_votes(votes) = Respondents
    /\ \E c \in DOMAIN votes : votes[c] > 1

(***************************************************************************)
(* C15: a run passes its stages in the order Start, ZoneResolved,          *)
(* RecordFetched, IPResolved and ends in exactly one of NoOp, WouldUpdate, *)
(* Updated, Failed; a failure at a stage ends the run in Failed with no    *)
(* later stage performed, so a run whose zone lookup, record fetch or IP   *)
(* resolution failed sends no update request; a run sends at most one.     *)
(***************************************************************************)
IsListRecordsRequest(r) == r.to = "cloudflare" /\ r.op = "ListDnsRecords"

ListRecordsRequests == SelectSeq(requests, IsListRecordsRequest)

ZoneErrors == {"ZeroTimeout", "ListZones", "ZoneNotFound"}

FetchErrors == {"ListDnsRecords", "RecordNotFound"}

ResolveErrors == {"ParseError", "NoneReplied", "AllSourcesFailed", "NoQuorum"}

C15_Stages ==
    /\ Len(UpdateRequests) <= 1
    /\ Len(ListRecordsRequests) <= 1
    /\ outcome.state \in {"Running", "NoOp", "WouldUpdate", "Updated", "Failed"}
    /\ (pc = "exit") <=> (outcome.state # "Running")
    \* the stages reached, in order
    /\ pc \in {"start", "find_zone"} => ~zone_id.some
    /\ current_record.some => zone_id.some
    /\ (IpRequests # <<>> \/ PassReturned) => current_record.some
    /\ UpdateRequests # <<>> => external_ip.ok
    /\ outcome.state \in {"NoOp", "WouldUpdate", "Updated"} => external_ip.ok
    \* a failure performs no later stage
    /\ outcome.state = "Failed" =>
          /\ outcome.err \in ZoneErrors =>
                ~zone_id.some /\ ListRecordsRequests = <<>> /\ IpRequests = <<>>
          /\ outcome.err \in FetchErrors =>
                ~current_record.some /\ IpRequests = <<>>
          /\ outcome.err \in ResolveErrors => ~external_ip.ok
          /\ outcome.err \in ZoneErrors \cup FetchErrors \cup ResolveErrors =>
                UpdateRequests = <<>>
          /\ outcome.err \notin ZoneErrors \cup FetchErrors \cup ResolveErrors =>
                outcome.err = "UpdateDnsRecord" /\ Len(UpdateRequests) = 1

C15_Step ==
    /\ pc = "start" => pc' \in {"find_zone", "exit"}
    /\ pc = "find_zone" => pc' \in {"fetch_record", "exit"}
    /\ pc = "fetch_record" => pc' \in {"resolve", "exit"}
    /\ pc = "resolve" => pc' \in {"resolve", "resolved"}
    /\ pc = "resolved" => pc' \in {"update", "exit"}
    /\ pc = "update" => pc' = "exit"
    /\ pc = "exit" => pc' = "start" /\ run' = run + 1
    /\ (pc' = "exit" /\ pc \in {"start", "find_zone", "fetch_record"}) =>
          outcome'.state = "Failed"

C15_StageOrder == [](C15_Stages) /\ [][C15_Step]_vars

C15_Witness ==
    /\ pc = "exit"
    /\ outcome = Failed("NoQuorum")
    /\ zone_id.some
    /\ current_record.some
    /\ Len(IpRequests) = NumSources
    /\ UpdateRequests = <<>>

(***************************************************************************)
(* C16 (as claimed): the provider's record fetch and record write both     *)
(* happen after the IP resolution has completed.  Fails: main fetches the  *)
(* record (main.rs:146) before it resolves the IP (main.rs:147).           *)
(***************************************************************************)
C16_FetchAndWriteAfterResolution ==
    (ListRecordsRequests # <<>> \/ UpdateRequests # <<>>) => PassReturned

(***************************************************************************)
(* C16 (amended): the record is fetched before the IP resolution begins    *)
(* and written only after it has completed, in the order fetch, resolve,   *)
(* compare, write; no request goes to the DNS provider while the IP        *)
(* services are being asked.                                               *)
(***************************************************************************)
C16_FetchResolveWrite ==
    /\ \A j, k \in DOMAIN requests :
          (IsIpRequest(requests[k]) /\ requests[j].to = "cloudflare") =>
              IF IsUpdateRequest(requests[j]) THEN k < j ELSE j < k
    /\ IpRequests # <<>> => Len(ListRecordsRequests) = 1 /\ current_record.some
    /\ UpdateRequests # <<>> =>
          /\ PassReturned
          /\ external_ip.ok
          /\ Len(ListRecordsRequests) = 1
          /\ AskedUpTo(i)
    /\ pc = "resolve" => UpdateRequests = <<>>

C16_Witness ==
    /\ pc = "exit"
    /\ outcome = Ended("Updated")
    /\ Len(ListRecordsRequests) = 1
    /\ Len(IpRequests) = NumSources
    /\ Len(UpdateRequests) = 1
    /\ IsUpdateRequest(requests[Len(requests)])

Candidates == { FirstMatchAt(s) : s \in { t \in Sources : HasMatchAt(t) } }

Warned == \E k \in DOMAIN stderr : stderr[k].msg = "Warning: Some services disagree on IP!"

TalliesShown ==
    \E k \in DOMAIN stderr :
        /\ stderr[k].msg = "No IP has absolute majority"
        /\ stderr[k].lines = { <<c, ReportedBy(c)>> : c \in Candidates }
        /\ k < Len(stderr)
        /\ \E w \in 1..(k - 1) :
              stderr[w].msg = "Warning: Some services disagree on IP!"

(***************************************************************************)
(* C17: in quorum mode, a pass that has returned NoQuorum has printed      *)
(* every candidate the services reported, each with the number of services *)
(* that reported it; and a pass that has returned after two or more        *)
(* different candidates were reported (a tie for the highest tally         *)
(* included) has printed the disagreement warning.                         *)
(***************************************************************************)
C17_TalliesAndWarningShown ==
    (options.verify /\ PassReturned) =>
        /\ external_ip = Err("NoQuorum") => TalliesShown
        /\ Cardinality(Candidates) >= 2 => Warned
        /\ Cardinality(Candidates) < 2 => ~Warned

C17_Witness ==
    /\ options.verify
    /\ external_ip = Err("NoQuorum")
    /\ Cardinality(Candidates) = 3
    /\ Cardinality(TopVotes(votes)) = 2
    /\ TalliesShown

\* The record of the run is the first one of the provider's list that bears
\* the requested name.
FirstNamed(record) ==
    \E k \in DOMAIN dns :
        /\ dns[k].name = options.dns_record
        /\ \A j \in 1..(k - 1) : dns[j].name # options.dns_record
        /\ dns[k] = record

SentReplacement ==
    /\ Len(UpdateRequests) = 1
    /\ UpdateRequests[1].params.identifier = current_record.val.id
    /\ UpdateRequests[1].params.content = ContentA(external_ip.val)
    /\ outcome.state \in {"Updated", "Failed"}
    /\ outcome.state = "Updated" =>
          \E k \in DOMAIN dns :
              /\ dns[k].id = current_record.val.id
              /\ dns[k].content = ContentA(external_ip.val)

(***************************************************************************)
(* C18: the record a run compares and updates is the first record of the   *)
(* provider's list with the requested name, whatever its type.  When its   *)
(* content is no A address the run never ends in NoOp: once an IP is        *)
(* resolved it ends in WouldUpdate (dry run) or sends one update that puts *)
(* an A address with the resolved IP in the record.  A run ends in NoOp    *)
(* only on an A record whose address is the resolved IP.                   *)
(***************************************************************************)
C18_FirstNamedRecordWhateverType ==
    /\ (current_record.some /\ UpdateRequests = <<>>) =>
          FirstNamed(current_record.val)
    /\ (current_record.some /\ current_record.val.content.type # "A") =>
          /\ outcome.state # "NoOp"
          /\ (pc = "exit" /\ external_ip.ok) =>
                IF options.dry_run
                THEN outcome = Ended("WouldUpdate") /\ UpdateRequests = <<>>
                ELSE SentReplacement
    /\ outcome.state = "NoOp" =>
          /\ external_ip.ok
          /\ current_record.val.content = ContentA(external_ip.val)

C18_Witness ==
    /\ pc = "exit"
    /\ outcome = Ended("Updated")
    /\ current_record.val = HostOther
    /\ SentReplacement
    /\ \E k \in DOMAIN dns : dns[k].id # current_record.val.id
                               /\ dns[k].name = options.dns_record
                               /\ dns[k].content.type = "A"

====
